---------------------------- MODULE Spec2Model ----------------------------
(***************************************************************************)
(* The cloudportal Terraform provider: the logger singleton (package       *)
(* logger), providerConfigure, the ticket data source's read operation     *)
(* and the flatten helpers it uses.                                        *)
(*                                                                         *)
(* Process 0 is the goroutine that runs providerConfigure; processes       *)
(* 1..NumReads are the goroutines the host runs dataSourceTicketRead on.   *)
(***************************************************************************)
EXTENDS Integers, Sequences, FiniteSets, TLC

\* Number of reads the host issues against the configured client.
NumReads == 2
\* Longest sequence handed to a flatten helper.
MaxLen == 2

\* http.StatusOK
StatusOK == 200

VARIABLES
    cfgIn,        \* the provider block: api_key, base_url, debug_info
    proc,         \* "running", or how the process ended: "fatal" (os.Exit), "panic"
    pc,           \* position of every goroutine
    client,       \* the *CloudportalAPIClient providerConfigure returned (has = FALSE: none)
    cfgErr,       \* the error providerConfigure returned
    once,         \* sync.Once of package logger: "fresh", "running", "done"
    logInstance,  \* TRUE when the package variable logInstance is non-nil
    file,         \* the log file: "none", "open", "closed"
    opens,        \* successful os.OpenFile calls made so far
    mu,           \* holders of logInstance.mu
    writing,      \* goroutines inside logInstance.Println
    lastWrite,    \* what the last Println met: "none" yet, "landed", "lost" (file closed)
    deferClose,   \* per read: defer logger.Close() is registered
    inp,          \* per read: what the collaborators answered so far
    hist,         \* per read: the steps executed, in order
    ticket,       \* per read: the decoded Ticket
    attrs,        \* per read: the attributes d.Set assigned
    rid,          \* per read: the id d.SetId assigned ("unset" before)
    ret,          \* per read: what the read returned
    fn,           \* helper specification: the flatten helper applied last
    fin,          \* helper specification: its input
    fiter,        \* helper specification: the map iteration orders the runtime chose
    fout          \* helper specification: its output

vars == <<cfgIn, proc, pc, client, cfgErr, once, logInstance, file, opens, mu,
          writing, lastWrite, deferClose, inp, hist, ticket, attrs, rid,
          ret, fn, fin, fiter, fout>>

procVars == <<cfgIn, proc, pc, client, cfgErr, once, logInstance, file, opens, mu,
              writing, lastWrite, deferClose, inp, hist, ticket, attrs, rid,
              ret>>

flatVars == <<fn, fin, fiter, fout>>

Reads == 1..NumReads
Procs == 0..NumReads

-----------------------------------------------------------------------------
(* Go values.  A slice is nil or holds elements; a map[string]T is a        *)
(* function on its key set (ranging over a nil map and over an empty map    *)
(* are the same loop); a map[string]interface{} literal is a record.        *)

NilSlice == [isnil |-> TRUE, elems |-> <<>>]

Slice(s) == [isnil |-> FALSE, elems |-> s]

\* append(result, x): a nil slice becomes a one-element slice.
GoAppendFront(res, x) == [isnil |-> FALSE, elems |-> <<x>> \o res.elems]

GoAppend(res, x) == [isnil |-> FALSE, elems |-> Append(res.elems, x)]

EmptyMap == [k \in {} |-> ""]

\* All orders in which a range loop can visit the keys of a map.
RangeOrdersWithRepeats(m) == [1..Cardinality(DOMAIN m) -> DOMAIN m]

RangeOrdersOneOrder(m) ==
    {CHOOSE s \in [1..Cardinality(DOMAIN m) -> DOMAIN m] :
        \A i, j \in DOMAIN s : i # j => s[i] # s[j]}

RangeOrders(m) ==
    { s \in [1..Cardinality(DOMAIN m) -> DOMAIN m] :
        \A i, j \in DOMAIN s : i # j => s[i] # s[j] }

-----------------------------------------------------------------------------
(* The flatten helpers, loop by loop: each starts from `var result         *)
(* []interface{}` (nil) and appends one map per element visited.           *)

RECURSIVE flattenStringListFrom(_, _, _)
flattenStringListFrom(list, i, res) ==
    IF i > Len(list.elems) THEN res
    ELSE flattenStringListFrom(list, i + 1, GoAppend(res, list.elems[i]))

flattenStringList(list) == flattenStringListFrom(list, 1, NilSlice)

flattenStringMap(m) == [k \in DOMAIN m |-> m[k]]

RECURSIVE flattenUsersFrom(_, _, _)
flattenUsersFrom(users, i, res) ==
    IF i > Len(users.elems) THEN res
    ELSE LET user == users.elems[i]
         IN flattenUsersFrom(users, i + 1, GoAppend(res,
                [email             |-> user.Email,
                 userprincipalname |-> user.UserPrincipalName,
                 id                |-> user.ID,
                 displayname       |-> user.DisplayName,
                 roles             |-> user.Roles]))

flattenUsers(users) == flattenUsersFrom(users, 1, NilSlice)

RECURSIVE flattenCommentsFrom(_, _, _)
flattenCommentsFrom(comments, i, res) ==
    IF i > Len(comments.elems) THEN res
    ELSE LET comment == comments.elems[i]
         IN flattenCommentsFrom(comments, i + 1, GoAppend(res,
                [id          |-> comment.ID,
                 createdat   |-> comment.Createdat,
                 modifiedat  |-> comment.Modifiedat,
                 author      |-> comment.Author,
                 content     |-> comment.Content,
                 loginuser   |-> comment.Loginuser,
                 iseditable  |-> comment.Iseditable,
                 iseditmode  |-> comment.Iseditmode,
                 contentcopy |-> comment.Contentcopy]))

flattenComments(comments) == flattenCommentsFrom(comments, 1, NilSlice)

RECURSIVE flattenAttachmentsFrom(_, _, _)
flattenAttachmentsFrom(attachments, i, res) ==
    IF i > Len(attachments.elems) THEN res
    ELSE LET attachment == attachments.elems[i]
         IN flattenAttachmentsFrom(attachments, i + 1, GoAppend(res,
                [url            |-> attachment.URL,
                 uploaddatetime |-> attachment.UploadDateTime,
                 uploadedby     |-> flattenUsers(attachment.UploadedBy),
                 filename       |-> attachment.Filename]))

flattenAttachments(attachments) == flattenAttachmentsFrom(attachments, 1, NilSlice)

\* order: the keys of invoicePeriods in the order the range loop visits them.
RECURSIVE flattenInvoicePeriodsFrom(_, _, _, _)
flattenInvoicePeriodsFrom(invoicePeriods, order, i, res) ==
    IF i > Len(order) THEN res
    ELSE LET key    == order[i]
             period == invoicePeriods[key]
         IN flattenInvoicePeriodsFrom(invoicePeriods, order, i + 1, GoAppend(res,
                [invoiceperiod |-> key,
                 actualcost    |-> period.ActualCost,
                 startdate     |-> period.StartDate,
                 enddate       |-> period.EndDate]))

flattenInvoicePeriods(invoicePeriods, order) ==
    flattenInvoicePeriodsFrom(invoicePeriods, order, 1, NilSlice)

\* iter[i]: the order in which the i-th item's InvoicePeriods map is ranged over.
RECURSIVE flattenBillingItemsFrom(_, _, _, _)
flattenBillingItemsFrom(billingItems, iter, i, res) ==
    IF i > Len(billingItems.elems) THEN res
    ELSE LET item == billingItems.elems[i]
         IN flattenBillingItemsFrom(billingItems, iter, i + 1, GoAppend(res,
                [id               |-> item.ID,
                 partitionkey     |-> item.PartitionKey,
                 subscriptionname |-> item.SubscriptionName,
                 invoiceperiods   |-> flattenInvoicePeriods(item.InvoicePeriods, iter[i])]))

flattenBillingItems(billingItems, iter) ==
    flattenBillingItemsFrom(billingItems, iter, 1, NilSlice)

\* The iteration orders the runtime can choose for the maps of billingItems.
BillingIterations(billingItems) ==
    { it \in [1..Len(billingItems.elems) ->
                UNION { RangeOrders(billingItems.elems[i].InvoicePeriods) :
                          i \in 1..Len(billingItems.elems) }] :
        \A i \in 1..Len(billingItems.elems) :
            it[i] \in RangeOrders(billingItems.elems[i].InvoicePeriods) }

RECURSIVE flattenChangesFrom(_, _, _)
flattenChangesFrom(changes, i, res) ==
    IF i > Len(changes.elems) THEN res
    ELSE LET change == changes.elems[i]
         IN flattenChangesFrom(changes, i + 1, GoAppend(res,
                [propertyname |-> change.PropertyName,
                 oldvalue     |-> flattenStringMap(change.OldValue),
                 newvalue     |-> flattenStringMap(change.NewValue)]))

flattenChanges(changes) == flattenChangesFrom(changes, 1, NilSlice)

RECURSIVE flattenHistoryItemsFrom(_, _, _)
flattenHistoryItemsFrom(historyItems, i, res) ==
    IF i > Len(historyItems.elems) THEN res
    ELSE LET historyItem == historyItems.elems[i]
         IN flattenHistoryItemsFrom(historyItems, i + 1, GoAppend(res,
                [date    |-> historyItem.Date,
                 author  |-> flattenUsers(historyItem.Author),
                 changes |-> flattenChanges(historyItem.Changes)]))

flattenHistoryItems(historyItems) == flattenHistoryItemsFrom(historyItems, 1, NilSlice)

RECURSIVE flattenActionsFrom(_, _, _)
flattenActionsFrom(actions, i, res) ==
    IF i > Len(actions.elems) THEN res
    ELSE LET action == actions.elems[i]
         IN flattenActionsFrom(actions, i + 1, GoAppend(res,
                [actionname           |-> action.ActionName,
                 requiredproperties   |-> flattenStringList(action.RequiredProperties),
                 type                 |-> action.Type,
                 minnumofcatalogitems |-> action.MinNumOfCatalogItems]))

flattenActions(actions) == flattenActionsFrom(actions, 1, NilSlice)

-----------------------------------------------------------------------------
(* Sample values of the Go types of the data source.                       *)

ZeroUser ==
    [ID |-> "", Email |-> "", UserPrincipalName |-> "", DisplayName |-> "",
     Roles |-> NilSlice]

UserA ==
    [ID |-> "u1", Email |-> "a@example.com", UserPrincipalName |-> "a",
     DisplayName |-> "A", Roles |-> Slice(<<"owner", "editor">>)]

UserB ==
    [ID |-> "u2", Email |-> "b@example.com", UserPrincipalName |-> "b",
     DisplayName |-> "B", Roles |-> NilSlice]

CommentA ==
    [ID |-> "c1", Createdat |-> "2024-01-01", Modifiedat |-> "2024-01-02",
     Author |-> UserA, Content |-> "first", Loginuser |-> UserB,
     Iseditable |-> TRUE, Iseditmode |-> FALSE, Contentcopy |-> "first"]

CommentB ==
    [ID |-> "c2", Createdat |-> "2023-12-31", Modifiedat |-> "",
     Author |-> UserB, Content |-> "second", Loginuser |-> UserB,
     Iseditable |-> FALSE, Iseditmode |-> FALSE, Contentcopy |-> ""]

AttachmentA ==
    [URL |-> "https://files/1", UploadDateTime |-> "2024-01-03",
     UploadedBy |-> Slice(<<UserB, UserA>>), Filename |-> "b.txt"]

AttachmentB ==
    [URL |-> "https://files/2", UploadDateTime |-> "2024-01-01",
     UploadedBy |-> NilSlice, Filename |-> "a.txt"]

AttachmentC ==
    [URL |-> "https://files/3", UploadDateTime |-> "2024-01-02",
     UploadedBy |-> Slice(<<UserA>>), Filename |-> "c.txt"]

\* The period stored under a label carries a label field of its own, which the
\* JSON document need not set to the key.
PeriodJan == [InvoicePeriod |-> "", ActualCost |-> 1005,
              StartDate |-> "2024-01-01", EndDate |-> "2024-01-31"]

PeriodFeb == [InvoicePeriod |-> "Jan-2024", ActualCost |-> 7,
              StartDate |-> "2024-02-01", EndDate |-> "2024-02-29"]

PeriodsTwo == [k \in {"Jan-2024", "Feb-2024"} |->
                 IF k = "Jan-2024" THEN PeriodJan ELSE PeriodFeb]

PeriodsOne == [k \in {"Jan-2024"} |-> PeriodJan]

NoPeriods == [k \in {} |-> PeriodJan]

BillingA ==
    [ID |-> "b1", PartitionKey |-> "p", SubscriptionName |-> "sub-z",
     InvoicePeriods |-> PeriodsTwo]

BillingB ==
    [ID |-> "b2", PartitionKey |-> "p", SubscriptionName |-> "sub-a",
     InvoicePeriods |-> NoPeriods]

BillingC ==
    [ID |-> "b3", PartitionKey |-> "q", SubscriptionName |-> "sub-m",
     InvoicePeriods |-> PeriodsOne]

ChangeA ==
    [PropertyName |-> "status",
     OldValue |-> [k \in {"value"} |-> "open"],
     NewValue |-> [k \in {"value", "reason"} |-> IF k = "value" THEN "closed" ELSE "done"]]

ChangeB ==
    [PropertyName |-> "owner", OldValue |-> EmptyMap, NewValue |-> [k \in {"id"} |-> "u2"]]

HistoryA ==
    [Date |-> "2024-01-05", Author |-> Slice(<<UserA>>),
     Changes |-> Slice(<<ChangeB, ChangeA>>)]

HistoryB ==
    [Date |-> "2024-01-04", Author |-> NilSlice, Changes |-> NilSlice]

HistoryC ==
    [Date |-> "2024-01-06", Author |-> Slice(<<UserB, UserA>>),
     Changes |-> Slice(<<ChangeA>>)]

ActionA ==
    [ActionName |-> "approve", RequiredProperties |-> Slice(<<"title", "status", "title">>),
     Type |-> "workflow", MinNumOfCatalogItems |-> 1]

ActionB ==
    [ActionName |-> "abort", RequiredProperties |-> NilSlice,
     Type |-> "workflow", MinNumOfCatalogItems |-> 0]

ZeroClarityCode ==
    [Code |-> "", Description |-> "", CostCenter |-> "", Emails |-> NilSlice, Tower |-> ""]

\* The zero value of Ticket: what `var ticket Ticket` holds before decoding.
ZeroTicket ==
    [ID |-> "", TicketNo |-> 0, Title |-> "", Description |-> "", Status |-> "",
     SubStatus |-> "", StatusChangedAt |-> "", CreatedAt |-> "",
     CreatedBy |-> ZeroUser, ChangedBy |-> ZeroUser, ClarityCode |-> ZeroClarityCode,
     Participants |-> NilSlice, Comments |-> NilSlice, Attachments |-> NilSlice,
     BillingItems |-> NilSlice, HistoryItems |-> NilSlice, ValidActions |-> NilSlice,
     EditableProperties |-> NilSlice, MandatoryProperties |-> NilSlice,
     ETag |-> "", Type |-> "", ServiceProvider |-> "", CloudPlatform |-> "",
     CatalogItems |-> NilSlice]

\* A ticket with one comment, one attachment and one billing item of two periods.
FullTicket ==
    [ID |-> "t-42", TicketNo |-> 42, Title |-> "vm", Description |-> "need a vm",
     Status |-> "open", SubStatus |-> "new", StatusChangedAt |-> "2024-01-02",
     CreatedAt |-> "2024-01-01",
     CreatedBy |-> UserA, ChangedBy |-> UserB,
     ClarityCode |-> [Code |-> "cc", Description |-> "d", CostCenter |-> "k",
                      Emails |-> Slice(<<"a@example.com">>), Tower |-> "t"],
     Participants |-> Slice(<<[UserInfo |-> UserB, Role |-> "approver"]>>),
     Comments |-> Slice(<<CommentA>>), Attachments |-> Slice(<<AttachmentA>>),
     BillingItems |-> Slice(<<BillingA>>), HistoryItems |-> Slice(<<HistoryA>>),
     ValidActions |-> Slice(<<ActionA>>),
     EditableProperties |-> Slice(<<"title">>), MandatoryProperties |-> Slice(<<"title">>),
     ETag |-> "e1", Type |-> "request", ServiceProvider |-> "sp", CloudPlatform |-> "azure",
     CatalogItems |-> Slice(<<[Name |-> "vm", Label |-> "VM", Active |-> TRUE]>>)]

\* What json.Unmarshal leaves in `ticket`: the document the API serves is that
\* of FullTicket; a body that does not parse leaves the zero value.
DecodedTicket(answer) == IF answer = "ok" THEN FullTicket ELSE ZeroTicket

-----------------------------------------------------------------------------
(* The state after the plugin has started: nothing is configured, the       *)
(* logger package variables hold their zero values, no read has begun.      *)

NoInput ==
    [req |-> "none", tok |-> "none", http |-> "none", status |-> 0, gzhdr |-> FALSE,
     gzip |-> "none", body |-> "none", decode |-> "none", iter |-> <<>>]

NoReturn == [kind |-> "none", code |-> 0, text |-> ""]

NoAttrs == [k \in {} |-> ""]

ProcInit ==
    /\ cfgIn \in [api_key : {"", "key"}, base_url : {"", "https://portal"},
                  debug_info : BOOLEAN]
    /\ proc = "running"
    /\ pc = [p \in Procs |-> IF p = 0 THEN "c_start" ELSE "idle"]
    /\ client = [has |-> FALSE, aziclient |-> "nil", isdebug |-> FALSE]
    /\ cfgErr = ""
    /\ once = "fresh"
    /\ logInstance = FALSE
    /\ file = "none"
    /\ opens = 0
    /\ mu = {}
    /\ writing = {}
    /\ lastWrite = "none"
    /\ deferClose = [r \in Reads |-> FALSE]
    /\ inp = [r \in Reads |-> NoInput]
    /\ hist = [r \in Reads |-> <<>>]
    /\ ticket = [r \in Reads |-> ZeroTicket]
    /\ attrs = [r \in Reads |-> NoAttrs]
    /\ rid = [r \in Reads |-> "unset"]
    /\ ret = [r \in Reads |-> NoReturn]

FlatIdle ==
    /\ fn = "none"
    /\ fin = NilSlice
    /\ fiter = <<>>
    /\ fout = NilSlice

Init == ProcInit /\ FlatIdle

\* The positions of a read whose statement touches nothing but the goroutine's
\* own variables (its locals, d, the answers of the collaborators it calls) or
\* only looks at shared state that no longer changes: a read calls NewLogger
\* after providerConfigure has, when once.Do has run and logInstance is set
\* for good.
LocalPoints ==
    {"nl_call", "nl_ret",
     "r_req", "r_tok", "r_do", "r_status", "r_gzip", "r_readall", "r_unm", "r_set",
     "r_req_ret", "r_do_ret", "r_st_ret"}

\* The deferred logger.Close() acts on the shared file; it is a statement of
\* the goroutine alone when none was registered or the file is closed already.
AtLocalPoint(q) ==
    \/ pc[q] \in LocalPoints
    \/ pc[q] = "r_defer" /\ (~deferClose[q] \/ file = "closed")

\* Such a statement commutes with every step of every other goroutine, so a
\* goroutine runs through its local statements without being preempted; the
\* steps on shared state (the logger, its file, the process) interleave freely.
Scheduled(p) == \A q \in Reads \ {p} : ~AtLocalPoint(q)

\* log.Fatal and an unrecovered panic end the process: no goroutine runs on.
RunnableAfterExit(p) == Scheduled(p)

Runnable(p) == proc = "running" /\ Scheduled(p)

\* The positions at which a goroutine calls logger.Debug, Info or Error.
LogPoints ==
    {"c_info", "c_err_log", "c_cred_errlog",
     "r_url", "r_req_errlog", "r_tok_errlog", "r_tok_dbg", "r_do_errlog",
     "r_status_dbg", "r_st_err1", "r_st_err2", "r_gz_errlog", "r_rd_errlog",
     "r_body_dbg", "r_unm_errlog", "m_log"}

\* The statement that follows each logging call.
AfterLog(at) ==
    CASE at = "c_info"        -> "c_check"
      [] at = "c_err_log"     -> "c_fail"
      [] at = "c_cred_errlog" -> "c_ret"
      [] at = "r_url"         -> "r_req"
      [] at = "r_req_errlog"  -> "r_req_ret"
      [] at = "r_tok_errlog"  -> "r_tok_fatal"
      [] at = "r_tok_dbg"     -> "r_do"
      [] at = "r_do_errlog"   -> "r_do_ret"
      [] at = "r_status_dbg"  -> "r_status"
      [] at = "r_st_err1"     -> "r_st_err2"
      [] at = "r_st_err2"     -> "r_st_ret"
      [] at = "r_gz_errlog"   -> "r_readall"
      [] at = "r_rd_errlog"   -> "r_body_dbg"
      [] at = "r_body_dbg"    -> "r_unm"
      [] at = "r_unm_errlog"  -> "r_set"
      [] at = "m_log"         -> "m_idle"

\* Debug, Info and Error do nothing while logInstance is nil
\* (`if logInstance != nil`): control passes on to the next statement.
RECURSIVE Land(_)
Land(where) ==
    IF where \in LogPoints /\ ~logInstance THEN Land(AfterLog(where)) ELSE where

Goto(p, where) == pc' = [pc EXCEPT ![p] = Land(where)]

-----------------------------------------------------------------------------
(* package logger                                                          *)

\* file.Write under Println: a closed file answers os.ErrClosed, which
\* log.Logger drops, and the line is lost.
WriteResultAlwaysLands == "landed"

WriteResult == IF file = "open" THEN "landed" ELSE "lost"

\* once.Do runs its function for the first caller only.
OnceEveryCall == TRUE

OnceUntilOpened == once = "fresh" \/ (once = "done" /\ ~logInstance)

OnceFirstCall == once = "fresh"

\* mu.Lock() returns when nobody holds the mutex.
LockNoWait == TRUE

LockFree == mu = {}

\* NewLogger's `if logInstance == nil`, which returns "logger not initialized".
NewLoggerErrIfClosed == ~logInstance \/ file = "closed"

NewLoggerErr == ~logInstance

\* Both call sites pass debugEnabled = true.
DebugEnabledArg(p) == TRUE

\* NewLogger up to the end of os.OpenFile and the construction of logInstance.
NewLoggerCall(p) ==
    /\ pc[p] = "nl_call"
    /\ Runnable(p)
    /\ OnceFirstCall \/ once = "done"
    /\ IF OnceFirstCall
       THEN \E opened \in BOOLEAN :
              IF opened
              THEN /\ file' = "open"
                   /\ opens' = opens + 1
                   /\ logInstance' = TRUE
                   /\ once' = IF DebugEnabledArg(p) THEN "running" ELSE "done"
                   /\ Goto(p, IF DebugEnabledArg(p) THEN "nl_init" ELSE "nl_ret")
              ELSE /\ once' = "done"
                   /\ Goto(p, "nl_ret")
                   /\ UNCHANGED <<file, opens, logInstance>>
       ELSE /\ Goto(p, "nl_ret")
            /\ UNCHANGED <<file, opens, logInstance, once>>
    /\ UNCHANGED <<cfgIn, proc, client, cfgErr, mu, writing, lastWrite, deferClose,
                   inp, hist, ticket, attrs, rid, ret>>
    /\ UNCHANGED flatVars

\* logInstance.Println("Logger initialized"), inside once.Do: mu is not taken.
InitWriteBegin(p) ==
    /\ pc[p] = "nl_init"
    /\ Runnable(p)
    /\ writing' = writing \cup {p}
    /\ Goto(p, "nl_initw")
    /\ UNCHANGED <<cfgIn, proc, client, cfgErr, once, logInstance, file, opens, mu,
                   lastWrite, deferClose, inp, hist, ticket, attrs,
                   rid, ret>>
    /\ UNCHANGED flatVars

InitWriteEnd(p) ==
    /\ pc[p] = "nl_initw"
    /\ Runnable(p)
    /\ writing' = writing \ {p}
    /\ lastWrite' = WriteResult
    /\ once' = "done"
    /\ Goto(p, "nl_ret")
    /\ UNCHANGED <<cfgIn, proc, client, cfgErr, logInstance, file, opens, mu,
                   deferClose, inp, hist, ticket, attrs, rid, ret>>
    /\ UNCHANGED flatVars

\* The end of NewLogger and the caller's `if err != nil { log.Fatal(...) }`;
\* a read then registers `defer logger.Close()`.
NewLoggerReturn(p) ==
    /\ pc[p] = "nl_ret"
    /\ Runnable(p)
    /\ IF NewLoggerErr
       THEN /\ proc' = "fatal"
            /\ Goto(p, "exited_logger")
            /\ UNCHANGED deferClose
       ELSE /\ Goto(p, IF p = 0 THEN "c_info" ELSE "r_url")
            /\ deferClose' = IF p = 0 THEN deferClose ELSE [deferClose EXCEPT ![p] = TRUE]
            /\ UNCHANGED proc
    /\ UNCHANGED <<cfgIn, client, cfgErr, once, logInstance, file, opens, mu, writing,
                   lastWrite, inp, hist, ticket, attrs, rid, ret>>
    /\ UNCHANGED flatVars

\* Debug, Info, Error: logInstance.mu.Lock(), then into Println.
LogBegin(p) ==
    /\ pc[p] \in LogPoints
    /\ Runnable(p)
    /\ p \notin writing
    /\ logInstance
    /\ LockFree
    /\ mu' = mu \cup {p}
    /\ writing' = writing \cup {p}
    /\ UNCHANGED <<cfgIn, proc, pc, client, cfgErr, once, logInstance, file, opens,
                   lastWrite, deferClose, inp, hist, ticket, attrs,
                   rid, ret>>
    /\ UNCHANGED flatVars

\* Println writes the line (lost when the file is closed), then mu.Unlock().
LogEnd(p) ==
    /\ pc[p] \in LogPoints
    /\ Runnable(p)
    /\ p \in writing
    /\ lastWrite' = WriteResult
    /\ writing' = writing \ {p}
    /\ mu' = mu \ {p}
    /\ Goto(p, AfterLog(pc[p]))
    /\ UNCHANGED <<cfgIn, proc, client, cfgErr, once, logInstance, file, opens,
                   deferClose, inp, hist, ticket, attrs, rid, ret>>
    /\ UNCHANGED flatVars

\* Close: `if logInstance != nil && logInstance.file != nil { file.Close() }`.
FileAfterClose == IF logInstance /\ file # "none" THEN "closed" ELSE file

loggerVars == <<once, logInstance, file, opens, mu, writing, lastWrite>>

-----------------------------------------------------------------------------
(* providerConfigure                                                       *)

\* `if debugInfo`: the logger is created only when debug_info is set.
WantsLoggerAlways == TRUE

WantsLogger == cfgIn.debug_info

\* `if apiKey == "" || baseURL == ""`
MissingKeyOnly == cfgIn.api_key = ""

MissingConfig == cfgIn.api_key = "" \/ cfgIn.base_url = ""

ConfigureStart ==
    /\ pc[0] = "c_start"
    /\ Runnable(0)
    /\ Goto(0, IF WantsLogger THEN "nl_call" ELSE "c_info")
    /\ UNCHANGED <<cfgIn, proc, client, cfgErr, deferClose, inp, hist,
                   ticket, attrs, rid, ret>>
    /\ UNCHANGED loggerVars
    /\ UNCHANGED flatVars

ConfigureCheck ==
    /\ pc[0] = "c_check"
    /\ Runnable(0)
    /\ Goto(0, IF MissingConfig THEN "c_err_log" ELSE "c_cred")
    /\ UNCHANGED <<cfgIn, proc, client, cfgErr, deferClose, inp, hist,
                   ticket, attrs, rid, ret>>
    /\ UNCHANGED loggerVars
    /\ UNCHANGED flatVars

\* `return nil, fmt.Errorf("API key and base URL must be provided")`
ConfigureFail ==
    /\ pc[0] = "c_fail"
    /\ Runnable(0)
    /\ cfgErr' = "API key and base URL must be provided"
    /\ Goto(0, "c_done")
    /\ UNCHANGED <<cfgIn, proc, client, deferClose, inp, hist,
                   ticket, attrs, rid, ret>>
    /\ UNCHANGED loggerVars
    /\ UNCHANGED flatVars

\* Where providerConfigure goes after azidentity.NewClientSecretCredential
\* answered: `if err != nil { logger.Error(err.Error()) }`, no return.
CredentialNextReturningErr(built) == IF built THEN "c_ret" ELSE "c_err_log"

CredentialNext(built) == IF built THEN "c_ret" ELSE "c_cred_errlog"

\* azidentity.NewClientSecretCredential: on an error the credential is nil and
\* the error is only logged.
ConfigureCredential ==
    /\ pc[0] = "c_cred"
    /\ Runnable(0)
    /\ \E built \in BOOLEAN :
         /\ client' = [client EXCEPT !.aziclient = IF built THEN "cred" ELSE "nil"]
         /\ Goto(0, CredentialNext(built))
    /\ UNCHANGED <<cfgIn, proc, cfgErr, deferClose, inp, hist,
                   ticket, attrs, rid, ret>>
    /\ UNCHANGED loggerVars
    /\ UNCHANGED flatVars

\* NewCloudportalAPIClient and `return apiclient, nil`
ConfigureReturn ==
    /\ pc[0] = "c_ret"
    /\ Runnable(0)
    /\ client' = [client EXCEPT !.has = TRUE, !.isdebug = cfgIn.debug_info]
    /\ Goto(0, "c_done")
    /\ UNCHANGED <<cfgIn, proc, cfgErr, deferClose, inp, hist,
                   ticket, attrs, rid, ret>>
    /\ UNCHANGED loggerVars
    /\ UNCHANGED flatVars

-----------------------------------------------------------------------------
(* dataSourceTicketRead                                                    *)

\* The status codes the API answers with in this model, and resp.Status.
Statuses == {200, 404}

StatusText(code) ==
    CASE code = 200 -> "200 OK"
      [] code = 404 -> "404 Not Found"

\* `if cred.isdebug`
ReadWantsLogger == client.isdebug

\* The host calls the read with the client providerConfigure returned.
ReadStart(r) ==
    /\ pc[r] = "idle"
    /\ Runnable(r)
    /\ client.has
    /\ Goto(r, IF ReadWantsLogger THEN "nl_call" ELSE "r_url")
    /\ UNCHANGED <<cfgIn, proc, client, cfgErr, deferClose, inp, hist,
                   ticket, attrs, rid, ret>>
    /\ UNCHANGED loggerVars
    /\ UNCHANGED flatVars

\* http.NewRequest("GET", url, nil)
ReadNewRequest(r) ==
    /\ pc[r] = "r_req"
    /\ Runnable(r)
    /\ \E built \in BOOLEAN :
         /\ inp' = [inp EXCEPT ![r].req = IF built THEN "ok" ELSE "err"]
         /\ Goto(r, IF built THEN "r_tok" ELSE "r_req_errlog")
    /\ UNCHANGED <<cfgIn, proc, client, cfgErr, deferClose, hist,
                   ticket, attrs, rid, ret>>
    /\ UNCHANGED loggerVars
    /\ UNCHANGED flatVars

\* Where the read goes after cred.aziclient.GetToken answered.
TokenNextIgnoringErr(answer) == "r_tok_dbg"

TokenNext(answer) == IF answer = "ok" THEN "r_tok_dbg" ELSE "r_tok_errlog"

\* cred.aziclient.GetToken: a nil credential is dereferenced (panic).
ReadGetToken(r) ==
    /\ pc[r] = "r_tok"
    /\ Runnable(r)
    /\ hist' = [hist EXCEPT ![r] = Append(@, "token")]
    /\ IF client.aziclient = "nil"
       THEN /\ inp' = [inp EXCEPT ![r].tok = "panic"]
            /\ ret' = [ret EXCEPT ![r] = [kind |-> "panic", code |-> 0, text |-> ""]]
            /\ Goto(r, "r_defer")
       ELSE /\ \E answer \in {"ok", "err"} :
                 /\ inp' = [inp EXCEPT ![r].tok = answer]
                 /\ Goto(r, TokenNext(answer))
            /\ UNCHANGED ret
    /\ UNCHANGED <<cfgIn, proc, client, cfgErr, deferClose, ticket, attrs, rid>>
    /\ UNCHANGED loggerVars
    /\ UNCHANGED flatVars

\* log.Fatalf("failed to obtain a token: %v", err): os.Exit(1), no deferred call runs.
ReadTokenFatal(r) ==
    /\ pc[r] = "r_tok_fatal"
    /\ Runnable(r)
    /\ proc' = "fatal"
    /\ Goto(r, "exited_token")
    /\ UNCHANGED <<cfgIn, client, cfgErr, deferClose, inp, hist,
                   ticket, attrs, rid, ret>>
    /\ UNCHANGED loggerVars
    /\ UNCHANGED flatVars

\* cred.Client.Do(req): a transport error, or a response with a status and
\* possibly `Content-Encoding: gzip` (the header is looked at only after a 200).
ReadDo(r) ==
    /\ pc[r] = "r_do"
    /\ Runnable(r)
    /\ hist' = [hist EXCEPT ![r] = Append(@, "http")]
    /\ \E sent \in BOOLEAN, code \in Statuses, gz \in BOOLEAN :
         IF sent
         THEN /\ code # StatusOK => ~gz
              /\ inp' = [inp EXCEPT ![r].http = "ok", ![r].status = code, ![r].gzhdr = gz]
              /\ Goto(r, "r_status_dbg")
         ELSE /\ code = StatusOK /\ ~gz
              /\ inp' = [inp EXCEPT ![r].http = "err"]
              /\ Goto(r, "r_do_errlog")
    /\ UNCHANGED <<cfgIn, proc, client, cfgErr, deferClose, ticket, attrs, rid, ret>>
    /\ UNCHANGED loggerVars
    /\ UNCHANGED flatVars

\* `if resp.StatusCode != http.StatusOK`
StatusNext(code) == IF code # StatusOK THEN "r_st_err1" ELSE "r_gzip"

ReadCheckStatus(r) ==
    /\ pc[r] = "r_status"
    /\ Runnable(r)
    /\ Goto(r, StatusNext(inp[r].status))
    /\ UNCHANGED <<cfgIn, proc, client, cfgErr, deferClose, inp, hist,
                   ticket, attrs, rid, ret>>
    /\ UNCHANGED loggerVars
    /\ UNCHANGED flatVars

\* The error each `return` statement of the read hands to the host.
StatusErrorNoCode(code) == [kind |-> "err_status", code |-> 0, text |-> StatusText(code)]

StatusError(code) == [kind |-> "err_status", code |-> code, text |-> StatusText(code)]

ReturnedError(r) ==
    CASE pc[r] = "r_req_ret" -> [kind |-> "err_request", code |-> 0, text |-> ""]
      [] pc[r] = "r_do_ret"  -> [kind |-> "err_transport", code |-> 0, text |-> ""]
      [] pc[r] = "r_st_ret"  -> StatusError(inp[r].status)

ReadReturnError(r) ==
    /\ pc[r] \in {"r_req_ret", "r_do_ret", "r_st_ret"}
    /\ Runnable(r)
    /\ ret' = [ret EXCEPT ![r] = ReturnedError(r)]
    /\ Goto(r, "r_defer")
    /\ UNCHANGED <<cfgIn, proc, client, cfgErr, deferClose, inp, hist,
                   ticket, attrs, rid>>
    /\ UNCHANGED loggerVars
    /\ UNCHANGED flatVars

\* Where the read goes after gzip.NewReader answered: an error is only logged.
GzipNext(answer) == IF answer = "ok" THEN "r_readall" ELSE "r_gz_errlog"

\* `if resp.Header.Get("Content-Encoding") == "gzip"`: gzip.NewReader(reader)
ReadGzip(r) ==
    /\ pc[r] = "r_gzip"
    /\ Runnable(r)
    /\ IF inp[r].gzhdr
       THEN /\ hist' = [hist EXCEPT ![r] = Append(@, "gunzip")]
            /\ \E answer \in {"ok", "err"} :
                 /\ inp' = [inp EXCEPT ![r].gzip = answer]
                 /\ Goto(r, GzipNext(answer))
       ELSE /\ Goto(r, "r_readall")
            /\ UNCHANGED <<inp, hist>>
    /\ UNCHANGED <<cfgIn, proc, client, cfgErr, deferClose, ticket, attrs, rid, ret>>
    /\ UNCHANGED loggerVars
    /\ UNCHANGED flatVars

\* Where the read goes after io.ReadAll answered: an error is only logged.
BodyNext(answer) == IF answer = "ok" THEN "r_body_dbg" ELSE "r_rd_errlog"

\* io.ReadAll(reader): after a failed gzip.NewReader the reader is a nil
\* *gzip.Reader, whose Read dereferences it (panic).
ReadBody(r) ==
    /\ pc[r] = "r_readall"
    /\ Runnable(r)
    /\ hist' = [hist EXCEPT ![r] = Append(@, "read")]
    /\ IF inp[r].gzip = "err"
       THEN /\ inp' = [inp EXCEPT ![r].body = "panic"]
            /\ ret' = [ret EXCEPT ![r] = [kind |-> "panic", code |-> 0, text |-> ""]]
            /\ Goto(r, "r_defer")
       ELSE /\ \E answer \in {"ok", "err"} :
                 /\ inp' = [inp EXCEPT ![r].body = answer]
                 /\ Goto(r, BodyNext(answer))
            /\ UNCHANGED ret
    /\ UNCHANGED <<cfgIn, proc, client, cfgErr, deferClose, ticket, attrs, rid>>
    /\ UNCHANGED loggerVars
    /\ UNCHANGED flatVars

\* Where the read goes after json.Unmarshal answered: an error is only logged.
DecodeNext(answer) == IF answer = "ok" THEN "r_set" ELSE "r_unm_errlog"

\* json.Unmarshal(bodyBytes, &ticket): with or without an error, `ticket` holds
\* what was decoded (the zero value when nothing was).
ReadUnmarshal(r) ==
    /\ pc[r] = "r_unm"
    /\ Runnable(r)
    /\ hist' = [hist EXCEPT ![r] = Append(@, "decode")]
    /\ \E answer \in {"ok", "err"} :
         /\ inp' = [inp EXCEPT ![r].decode = answer]
         /\ ticket' = [ticket EXCEPT ![r] = DecodedTicket(answer)]
         /\ Goto(r, DecodeNext(answer))
    /\ UNCHANGED <<cfgIn, proc, client, cfgErr, deferClose, attrs, rid, ret>>
    /\ UNCHANGED loggerVars
    /\ UNCHANGED flatVars

\* The attributes TicketSchema declares for the data source.
TicketSchemaAttributes ==
    {"id", "ticketno", "title", "description", "status", "substatus",
     "statuschangedat", "createdat", "createdby", "changedby", "claritycode",
     "participants", "comments", "attachments", "billingitems", "historyitems",
     "validactions", "editableproperties", "mandatoryproperties", "etag", "type",
     "serviceprovider", "cloudplatform", "catalogitems"}

\* The d.Set calls of the read, each with the value it is given.
AssignedAttrs(t, iter) ==
    [id              |-> t.ID,
     ticketno        |-> t.TicketNo,
     title           |-> t.Title,
     description     |-> t.Description,
     status          |-> t.Status,
     substatus       |-> t.SubStatus,
     statuschangedat |-> t.StatusChangedAt,
     createdat       |-> t.CreatedAt,
     createdby       |-> t.CreatedBy,
     changedby       |-> t.ChangedBy,
     participants    |-> t.Participants,
     comments        |-> flattenComments(t.Comments),
     attachments     |-> flattenAttachments(t.Attachments),
     billingitems    |-> flattenBillingItems(t.BillingItems, iter),
     historyitems    |-> flattenHistoryItems(t.HistoryItems),
     validactions    |-> flattenActions(t.ValidActions)]

\* d.Set(...) for every attribute, d.SetId(ticket.ID), `return nil`.
ReadSet(r) ==
    /\ pc[r] = "r_set"
    /\ Runnable(r)
    /\ hist' = [hist EXCEPT ![r] = Append(@, "assign")]
    /\ \E iter \in BillingIterations(ticket[r].BillingItems) :
         /\ inp' = [inp EXCEPT ![r].iter = iter]
         /\ attrs' = [attrs EXCEPT ![r] = AssignedAttrs(ticket[r], iter)]
    /\ rid' = [rid EXCEPT ![r] = ticket[r].ID]
    /\ ret' = [ret EXCEPT ![r] = [kind |-> "nil", code |-> 0, text |-> ""]]
    /\ Goto(r, "r_defer")
    /\ UNCHANGED <<cfgIn, proc, client, cfgErr, deferClose, ticket>>
    /\ UNCHANGED loggerVars
    /\ UNCHANGED flatVars

\* The deferred calls: logger.Close() when it was registered; a panicking read
\* runs them too and then takes the process down.
ReadDeferred(r) ==
    /\ pc[r] = "r_defer"
    /\ Runnable(r)
    /\ file' = IF deferClose[r] THEN FileAfterClose ELSE file
    /\ IF ret[r].kind = "panic"
       THEN /\ proc' = "panic"
            /\ Goto(r, "crashed")
       ELSE /\ Goto(r, "done")
            /\ UNCHANGED proc
    /\ UNCHANGED <<cfgIn, client, cfgErr, once, logInstance, opens, mu, writing, lastWrite,
                   deferClose, inp, hist, ticket, attrs, rid, ret>>
    /\ UNCHANGED flatVars

-----------------------------------------------------------------------------

Next ==
    \/ ConfigureStart
    \/ ConfigureCheck
    \/ ConfigureFail
    \/ ConfigureCredential
    \/ ConfigureReturn
    \/ \E p \in Procs : NewLoggerCall(p)
    \/ \E p \in Procs : InitWriteBegin(p)
    \/ \E p \in Procs : InitWriteEnd(p)
    \/ \E p \in Procs : NewLoggerReturn(p)
    \/ \E p \in Procs : LogBegin(p)
    \/ \E p \in Procs : LogEnd(p)
    \/ \E r \in Reads : ReadStart(r)
    \/ \E r \in Reads : ReadNewRequest(r)
    \/ \E r \in Reads : ReadGetToken(r)
    \/ \E r \in Reads : ReadTokenFatal(r)
    \/ \E r \in Reads : ReadDo(r)
    \/ \E r \in Reads : ReadCheckStatus(r)
    \/ \E r \in Reads : ReadReturnError(r)
    \/ \E r \in Reads : ReadGzip(r)
    \/ \E r \in Reads : ReadBody(r)
    \/ \E r \in Reads : ReadUnmarshal(r)
    \/ \E r \in Reads : ReadSet(r)
    \/ \E r \in Reads : ReadDeferred(r)

Spec == Init /\ [][Next]_vars

-----------------------------------------------------------------------------
(* The flatten helpers on their own: each action hands one helper an input  *)
(* of at most MaxLen elements and keeps what it returned.                   *)

SeqsUpTo(S) == UNION { [1..n -> S] : n \in 0..MaxLen }

SlicesOf(S) == {NilSlice} \cup { Slice(q) : q \in SeqsUpTo(S) }

InitFlat ==
    /\ ProcInit
    /\ cfgIn = [api_key |-> "key", base_url |-> "https://portal", debug_info |-> FALSE]
    /\ FlatIdle

ApplyFlattenStringList ==
    \E list \in SlicesOf({"title", "status", ""}) :
        /\ fn' = "flattenStringList"
        /\ fin' = list
        /\ fiter' = <<>>
        /\ fout' = flattenStringList(list)
        /\ UNCHANGED procVars

ApplyFlattenUsers ==
    \E users \in SlicesOf({UserA, UserB, ZeroUser}) :
        /\ fn' = "flattenUsers"
        /\ fin' = users
        /\ fiter' = <<>>
        /\ fout' = flattenUsers(users)
        /\ UNCHANGED procVars

ApplyFlattenComments ==
    \E comments \in SlicesOf({CommentA, CommentB}) :
        /\ fn' = "flattenComments"
        /\ fin' = comments
        /\ fiter' = <<>>
        /\ fout' = flattenComments(comments)
        /\ UNCHANGED procVars

ApplyFlattenAttachments ==
    \E attachments \in SlicesOf({AttachmentA, AttachmentB, AttachmentC}) :
        /\ fn' = "flattenAttachments"
        /\ fin' = attachments
        /\ fiter' = <<>>
        /\ fout' = flattenAttachments(attachments)
        /\ UNCHANGED procVars

ApplyFlattenInvoicePeriods ==
    \E invoicePeriods \in {NoPeriods, PeriodsOne, PeriodsTwo} :
        \E order \in RangeOrders(invoicePeriods) :
            /\ fn' = "flattenInvoicePeriods"
            /\ fin' = invoicePeriods
            /\ fiter' = order
            /\ fout' = flattenInvoicePeriods(invoicePeriods, order)
            /\ UNCHANGED procVars

ApplyFlattenBillingItems ==
    \E billingItems \in SlicesOf({BillingA, BillingB, BillingC}) :
        \E iter \in BillingIterations(billingItems) :
            /\ fn' = "flattenBillingItems"
            /\ fin' = billingItems
            /\ fiter' = iter
            /\ fout' = flattenBillingItems(billingItems, iter)
            /\ UNCHANGED procVars

ApplyFlattenChanges ==
    \E changes \in SlicesOf({ChangeA, ChangeB}) :
        /\ fn' = "flattenChanges"
        /\ fin' = changes
        /\ fiter' = <<>>
        /\ fout' = flattenChanges(changes)
        /\ UNCHANGED procVars

ApplyFlattenHistoryItems ==
    \E historyItems \in SlicesOf({HistoryA, HistoryB, HistoryC}) :
        /\ fn' = "flattenHistoryItems"
        /\ fin' = historyItems
        /\ fiter' = <<>>
        /\ fout' = flattenHistoryItems(historyItems)
        /\ UNCHANGED procVars

ApplyFlattenActions ==
    \E actions \in SlicesOf({ActionA, ActionB}) :
        /\ fn' = "flattenActions"
        /\ fin' = actions
        /\ fiter' = <<>>
        /\ fout' = flattenActions(actions)
        /\ UNCHANGED procVars

NextFlat ==
    \/ ApplyFlattenStringList
    \/ ApplyFlattenUsers
    \/ ApplyFlattenComments
    \/ ApplyFlattenAttachments
    \/ ApplyFlattenInvoicePeriods
    \/ ApplyFlattenBillingItems
    \/ ApplyFlattenChanges
    \/ ApplyFlattenHistoryItems
    \/ ApplyFlattenActions

SpecFlat == InitFlat /\ [][NextFlat]_vars

-----------------------------------------------------------------------------
(* Package logger on its own: goroutines that call NewLogger, Debug, Info,  *)
(* Error and Close in any order and carry on whatever NewLogger answers.    *)
(* hist[r] names the call goroutine r made last, ret[r] is what its last    *)
(* NewLogger call returned.                                                 *)

InitLogger ==
    /\ cfgIn = [api_key |-> "key", base_url |-> "https://portal", debug_info |-> TRUE]
    /\ proc = "running"
    /\ pc = [p \in Procs |-> IF p = 0 THEN "c_done" ELSE "m_idle"]
    /\ client = [has |-> FALSE, aziclient |-> "nil", isdebug |-> FALSE]
    /\ cfgErr = ""
    /\ once = "fresh"
    /\ logInstance = FALSE
    /\ file = "none"
    /\ opens = 0
    /\ mu = {}
    /\ writing = {}
    /\ lastWrite = "none"
    /\ deferClose = [r \in Reads |-> FALSE]
    /\ inp = [r \in Reads |-> NoInput]
    /\ hist = [r \in Reads |-> <<>>]
    /\ ticket = [r \in Reads |-> ZeroTicket]
    /\ attrs = [r \in Reads |-> NoAttrs]
    /\ rid = [r \in Reads |-> "unset"]
    /\ ret = [r \in Reads |-> NoReturn]
    /\ FlatIdle

\* fmt.Errorf("logger not initialized")
LoggerNotInitialized == [kind |-> "err_logger", code |-> 0, text |-> "logger not initialized"]

\* A goroutine calls NewLogger; one that arrives while once.Do is running its
\* function waits in once.Do, which is to arrive when it has finished.
UseNewLogger(r) ==
    /\ pc[r] = "m_idle"
    /\ Runnable(r)
    /\ once # "running"
    /\ Goto(r, "nl_call")
    /\ UNCHANGED <<cfgIn, proc, client, cfgErr, deferClose, inp, hist,
                   ticket, attrs, rid, ret>>
    /\ UNCHANGED loggerVars
    /\ UNCHANGED flatVars

\* `if logInstance == nil { return nil, fmt.Errorf(...) }; return logInstance, nil`
UseNewLoggerReturn(r) ==
    /\ pc[r] = "nl_ret"
    /\ Runnable(r)
    /\ ret' = [ret EXCEPT ![r] = IF NewLoggerErr THEN LoggerNotInitialized
                                 ELSE [kind |-> "nil", code |-> 0, text |-> ""]]
    /\ hist' = [hist EXCEPT ![r] = <<"NewLogger">>]
    /\ Goto(r, "m_idle")
    /\ UNCHANGED <<cfgIn, proc, client, cfgErr, deferClose, inp, ticket, attrs, rid>>
    /\ UNCHANGED loggerVars
    /\ UNCHANGED flatVars

\* A goroutine calls Debug, Info or Error.
UseLog(r) ==
    /\ pc[r] = "m_idle"
    /\ Runnable(r)
    /\ hist' = [hist EXCEPT ![r] = <<"Debug">>]
    /\ Goto(r, "m_log")
    /\ UNCHANGED <<cfgIn, proc, client, cfgErr, deferClose, inp, ticket, attrs, rid, ret>>
    /\ UNCHANGED loggerVars
    /\ UNCHANGED flatVars

\* A goroutine calls Close.
UseClose(r) ==
    /\ pc[r] = "m_idle"
    /\ Runnable(r)
    /\ hist' = [hist EXCEPT ![r] = <<"Close">>]
    /\ file' = FileAfterClose
    /\ UNCHANGED <<cfgIn, proc, pc, client, cfgErr, once, logInstance, opens, mu, writing,
                   lastWrite, deferClose, inp, ticket, attrs, rid, ret>>
    /\ UNCHANGED flatVars

NextLogger ==
    \/ \E r \in Reads : UseNewLogger(r)
    \/ \E r \in Reads : NewLoggerCall(r)
    \/ \E r \in Reads : InitWriteBegin(r)
    \/ \E r \in Reads : InitWriteEnd(r)
    \/ \E r \in Reads : UseNewLoggerReturn(r)
    \/ \E r \in Reads : UseLog(r)
    \/ \E r \in Reads : LogBegin(r)
    \/ \E r \in Reads : LogEnd(r)
    \/ \E r \in Reads : UseClose(r)

SpecLogger == InitLogger /\ [][NextLogger]_vars

-----------------------------------------------------------------------------
(* Properties of dataSourceTicketRead.                                      *)

Has(r, step) == \E i \in 1..Len(hist[r]) : hist[r][i] = step

Ended(r) == pc[r] = "done"

ErrorKinds == {"err_request", "err_transport", "err_status", "err_token",
               "err_gzip", "err_body", "err_decode"}

\* The upstream failures: no token, no response, a status other than 200, a
\* body that is not the JSON of a ticket.
UpstreamFailure(r) ==
    \/ inp[r].tok = "err"
    \/ inp[r].http = "err"
    \/ inp[r].http = "ok" /\ inp[r].status # StatusOK
    \/ inp[r].decode = "err"

\* C1: a read that met an upstream failure (transport, non-200 status, JSON
\* decode, token) assigns nothing, does not end the process, and when it has
\* returned it has returned an error.
UpstreamFailureReturnsError ==
    \A r \in Reads :
        UpstreamFailure(r) =>
            /\ ~Has(r, "assign")
            /\ pc[r] # "exited_token"
            /\ Ended(r) => ret[r].kind \in ErrorKinds

\* C2: a read answered with a status other than 200 sets no attribute and no
\* id, and the error it returns carries the status code and the status text.
Non200ReturnsStatusError ==
    \A r \in Reads :
        (inp[r].http = "ok" /\ inp[r].status # StatusOK) =>
            /\ DOMAIN attrs[r] = {}
            /\ rid[r] = "unset"
            /\ ~Has(r, "read") /\ ~Has(r, "decode") /\ ~Has(r, "assign")
            /\ ret[r].kind \in {"none", "err_status"}
            /\ Ended(r) =>
                 /\ ret[r].kind = "err_status"
                 /\ ret[r].code = inp[r].status
                 /\ ret[r].text = StatusText(inp[r].status)

Non200Returned ==
    \E r \in Reads : Ended(r) /\ inp[r].http = "ok" /\ inp[r].status = 404

\* Any error on the way: building the request, the token, the transport, the
\* status, decompression, reading the body, decoding.
AnyFailure(r) ==
    \/ inp[r].req = "err"
    \/ inp[r].tok \in {"err", "panic"}
    \/ inp[r].http = "err"
    \/ inp[r].http = "ok" /\ inp[r].status # StatusOK
    \/ inp[r].gzip = "err"
    \/ inp[r].body \in {"err", "panic"}
    \/ inp[r].decode = "err"

\* C3: a read that met an error of any kind has set no attribute and no id.
NothingSetAfterFailure ==
    \A r \in Reads :
        AnyFailure(r) => DOMAIN attrs[r] = {} /\ rid[r] = "unset"

\* C4: a gzip response is decompressed before it is decoded, and a read whose
\* gzip reader could not be created reads no body, decodes nothing, sets
\* nothing and returns (rather than crashes with) an error of its own.
GzipFailureEndsRead ==
    \A r \in Reads :
        /\ (inp[r].gzhdr /\ Has(r, "decode")) => Has(r, "gunzip")
        /\ inp[r].gzip = "err" =>
             /\ ~Has(r, "read") /\ ~Has(r, "decode") /\ ~Has(r, "assign")
             /\ ret[r].kind # "panic"
             /\ Ended(r) => ret[r].kind = "err_gzip"

\* The place of each step in the order of a read.
Rank(step) ==
    CASE step = "token"  -> 1
      [] step = "http"   -> 2
      [] step = "gunzip" -> 3
      [] step = "read"   -> 4
      [] step = "decode" -> 5
      [] step = "assign" -> 6

\* C5: the steps of a read happen in the order token, HTTP call, gzip, body,
\* decode, flatten and assign, none of them twice; the HTTP call only after
\* the token was obtained, decoding only after a 200, assignment only after
\* decoding.
StepsInFixedOrder ==
    \A r \in Reads :
        /\ \A i, j \in 1..Len(hist[r]) : i < j => Rank(hist[r][i]) < Rank(hist[r][j])
        /\ Has(r, "http") => Has(r, "token") /\ inp[r].tok = "ok"
        /\ Has(r, "gunzip") => inp[r].gzhdr
        /\ Has(r, "decode") =>
             /\ inp[r].http = "ok" /\ inp[r].status = StatusOK
             /\ Has(r, "read")
             /\ inp[r].gzhdr => Has(r, "gunzip")
        /\ Has(r, "assign") => Has(r, "decode")
        /\ (DOMAIN attrs[r] # {} \/ rid[r] # "unset") => Has(r, "assign")

AllStepsTaken ==
    \E r \in Reads :
        /\ Ended(r)
        /\ hist[r] = <<"token", "http", "gunzip", "read", "decode", "assign">>
        /\ inp[r].decode = "ok"

-----------------------------------------------------------------------------
(* Properties of package logger.                                            *)

\* C6: the log file is opened at most once in the life of the process, so a
\* file that was closed is never opened again.
LogFileOpenedAtMostOnce ==
    /\ opens <= 1
    /\ file # "none" => opens = 1 /\ once # "fresh"

ClosedAndAskedAgain ==
    /\ file = "closed"
    /\ opens = 1
    /\ \A r \in Reads : Ended(r) /\ deferClose[r]

\* C7: a read writes to the log only while it holds the mutex, at most one
\* goroutine holds it, and no two writes are in progress at once.
LogWritesSerialised ==
    /\ Cardinality(writing) <= 1
    /\ Cardinality(mu) <= 1
    /\ \A r \in Reads : r \in writing => r \in mu

WriterAndWaiter ==
    \E r1, r2 \in Reads :
        /\ r1 # r2
        /\ r1 \in writing /\ r1 \in mu
        /\ pc[r2] \in LogPoints /\ r2 \notin mu

\* C8: reads given the same answers end the same way whether or not the log
\* file was closed before them, and NewLogger never fails a read because the
\* file was closed.
CloseLeavesReadsAlone ==
    /\ \A r \in Reads : pc[r] # "exited_logger"
    /\ \A r1, r2 \in Reads :
         (Ended(r1) /\ Ended(r2) /\ inp[r1] = inp[r2]) =>
             ret[r1] = ret[r2] /\ attrs[r1] = attrs[r2] /\ rid[r1] = rid[r2]

ReadAfterClose ==
    \E r1, r2 \in Reads :
        /\ r1 # r2
        /\ Ended(r1) /\ Ended(r2)
        /\ deferClose[r1] /\ deferClose[r2]
        /\ inp[r1] = inp[r2]
        /\ ret[r2].kind = "nil" /\ rid[r2] = FullTicket.ID
        /\ file = "closed" /\ lastWrite = "lost"

\* C9: with debug_info false the log file is never opened and no call to
\* Debug, Info or Error writes a line.
NoLogWithoutDebug ==
    ~cfgIn.debug_info =>
        /\ opens = 0
        /\ file = "none"
        /\ ~logInstance
        /\ once = "fresh"
        /\ writing = {} /\ mu = {}
        /\ lastWrite = "none"
        /\ \A p \in Procs : pc[p] \notin LogPoints

QuietReadDone ==
    /\ ~cfgIn.debug_info
    /\ \E r \in Reads : Ended(r) /\ ret[r].kind = "nil" /\ Has(r, "assign")

-----------------------------------------------------------------------------
(* Properties of the flatten helpers.                                       *)

OrderedHelpers ==
    {"flattenUsers", "flattenComments", "flattenAttachments", "flattenBillingItems",
     "flattenHistoryItems", "flattenChanges", "flattenActions", "flattenStringList"}

\* Output element `out` of helper `name` is the one built from input element `el`.
BuiltFrom(name, out, el) ==
    CASE name = "flattenStringList" -> out = el
      [] name = "flattenUsers" ->
            /\ out.id = el.ID /\ out.email = el.Email
            /\ out.userprincipalname = el.UserPrincipalName
            /\ out.displayname = el.DisplayName
      [] name = "flattenComments" ->
            /\ out.id = el.ID /\ out.content = el.Content
            /\ out.createdat = el.Createdat /\ out.author = el.Author
      [] name = "flattenAttachments" ->
            /\ out.url = el.URL /\ out.filename = el.Filename
            /\ out.uploaddatetime = el.UploadDateTime
            /\ Len(out.uploadedby.elems) = Len(el.UploadedBy.elems)
            /\ \A j \in 1..Len(el.UploadedBy.elems) :
                 out.uploadedby.elems[j].id = el.UploadedBy.elems[j].ID
      [] name = "flattenBillingItems" ->
            /\ out.id = el.ID /\ out.partitionkey = el.PartitionKey
            /\ out.subscriptionname = el.SubscriptionName
      [] name = "flattenHistoryItems" ->
            /\ out.date = el.Date
            /\ Len(out.author.elems) = Len(el.Author.elems)
            /\ \A j \in 1..Len(el.Author.elems) :
                 out.author.elems[j].id = el.Author.elems[j].ID
            /\ Len(out.changes.elems) = Len(el.Changes.elems)
            /\ \A j \in 1..Len(el.Changes.elems) :
                 out.changes.elems[j].propertyname = el.Changes.elems[j].PropertyName
      [] name = "flattenChanges" ->
            /\ out.propertyname = el.PropertyName
            /\ out.oldvalue = el.OldValue /\ out.newvalue = el.NewValue
      [] name = "flattenActions" ->
            /\ out.actionname = el.ActionName /\ out.type = el.Type
            /\ out.requiredproperties.elems = el.RequiredProperties.elems

\* C10: a slice-walking flatten helper given N elements returns N elements,
\* the i-th built from the i-th input element: nothing is dropped, reordered
\* or merged.
FlattenKeepsOrder ==
    fn \in OrderedHelpers =>
        /\ Len(fout.elems) = Len(fin.elems)
        /\ \A i \in 1..Len(fin.elems) : BuiltFrom(fn, fout.elems[i], fin.elems[i])

DuplicateKept ==
    /\ fn = "flattenUsers"
    /\ Len(fin.elems) = 2
    /\ fin.elems[1] = UserB /\ fin.elems[2] = UserB
    /\ Len(fout.elems) = 2 /\ fout.elems[1] = fout.elems[2]

\* C11: a flatten helper given an empty slice (flattenInvoicePeriods: an empty
\* map) returns an empty, non-nil sequence.
EmptyInputGivesEmptySequence ==
    /\ (fn \in OrderedHelpers /\ Len(fin.elems) = 0) =>
          (~fout.isnil /\ fout.elems = <<>>)
    /\ (fn = "flattenInvoicePeriods" /\ DOMAIN fin = {}) =>
          (~fout.isnil /\ fout.elems = <<>>)

\* C12: flattenInvoicePeriods turns a map with K labels into K elements, one
\* for each label, whose invoiceperiod is the label and whose actualcost,
\* startdate and enddate are those stored under the label.
OneElementPerPeriodLabel ==
    fn = "flattenInvoicePeriods" =>
        /\ Len(fout.elems) = Cardinality(DOMAIN fin)
        /\ \A key \in DOMAIN fin :
             /\ Cardinality({i \in 1..Len(fout.elems) :
                               fout.elems[i].invoiceperiod = key}) = 1
             /\ \A i \in 1..Len(fout.elems) :
                  fout.elems[i].invoiceperiod = key =>
                      /\ fout.elems[i].actualcost = fin[key].ActualCost
                      /\ fout.elems[i].startdate = fin[key].StartDate
                      /\ fout.elems[i].enddate = fin[key].EndDate
        /\ \A i \in 1..Len(fout.elems) :
             DOMAIN fout.elems[i] = {"invoiceperiod", "actualcost", "startdate", "enddate"}

TwoPeriodsFlattened ==
    /\ fn = "flattenInvoicePeriods"
    /\ fin = PeriodsTwo
    /\ Len(fout.elems) = 2
    /\ fout.elems[1].invoiceperiod = "Feb-2024"
    /\ fout.elems[1].actualcost = 7

-----------------------------------------------------------------------------
(* Properties of the attribute set and of providerConfigure.                *)

\* C13: a read that got a 200, decoded the body and returned nil has assigned
\* every attribute TicketSchema declares.
SuccessSetsEverySchemaAttribute ==
    \A r \in Reads :
        (Ended(r) /\ ret[r].kind = "nil" /\ inp[r].status = StatusOK /\ inp[r].decode = "ok") =>
            TicketSchemaAttributes \subseteq DOMAIN attrs[r]

\* C14: with api_key or base_url empty providerConfigure constructs no
\* credential and hands out no client, so no read starts; when it has
\* returned, it has returned an error.
MissingConfigIsAFailure ==
    (cfgIn.api_key = "" \/ cfgIn.base_url = "") =>
        /\ pc[0] \notin {"c_cred", "c_cred_errlog", "c_ret"}
        /\ client.aziclient = "nil"
        /\ ~client.has
        /\ \A r \in Reads : pc[r] = "idle" /\ hist[r] = <<>>
        /\ pc[0] = "c_done" => cfgErr = "API key and base URL must be provided"

MissingUrlRefused ==
    /\ cfgIn.api_key = "key" /\ cfgIn.base_url = ""
    /\ pc[0] = "c_done"
    /\ cfgErr # ""
    /\ ~client.has

\* C15: a read whose token acquisition failed sends no HTTP request and
\* returns nothing; it ends the process, and once the process has ended no
\* goroutine takes another step, so no read still in progress completes.
TokenFailureEndsProcess ==
    /\ [](\A r \in Reads :
            inp[r].tok = "err" =>
                /\ ~Has(r, "http")
                /\ ret[r] = NoReturn
                /\ pc[r] \in {"r_tok_errlog", "r_tok_fatal", "exited_token"})
    /\ [](\A r \in Reads : pc[r] = "exited_token" => proc = "fatal")
    /\ [][\A r \in Reads : pc[r] # "exited_token"]_vars

OtherReadCutShort ==
    \E r1, r2 \in Reads :
        /\ r1 # r2
        /\ pc[r1] = "exited_token" /\ inp[r1].tok = "err"
        /\ Has(r2, "http") /\ pc[r2] \notin {"done", "crashed", "exited_token"}

-----------------------------------------------------------------------------
(* The schema of each record kind, by the helper that flattens the kind.    *)

SchemaKeys(name) ==
    CASE name = "flattenUsers" ->
            {"email", "userprincipalname", "id", "displayname", "roles"}
      [] name = "flattenComments" ->
            {"id", "createdat", "modifiedat", "author", "content", "loginuser",
             "iseditable", "iseditmode", "contentcopy"}
      [] name = "flattenAttachments" ->
            {"url", "uploaddatetime", "uploadedby", "filename"}
      [] name = "flattenBillingItems" ->
            {"id", "partitionkey", "subscriptionname", "invoiceperiods"}
      [] name = "flattenInvoicePeriods" ->
            {"invoiceperiod", "actualcost", "startdate", "enddate"}
      [] name = "flattenHistoryItems" -> {"date", "author", "changes"}
      [] name = "flattenChanges" -> {"propertyname", "oldvalue", "newvalue"}
      [] name = "flattenActions" ->
            {"actionname", "requiredproperties", "type", "minnumofcatalogitems"}

\* v is what helper `name` returns: a sequence of mappings keyed as the schema
\* declares, rather than a Go struct or a slice of Go structs.
IsFlattenedBy(name, v) ==
    /\ DOMAIN v = {"isnil", "elems"}
    /\ \A j \in 1..Len(v.elems) : DOMAIN v.elems[j] = SchemaKeys(name)

\* C16: every mapping a flatten helper produces is keyed exactly as the schema
\* of its record kind declares, and every nested record or collection in it
\* (comment author and loginuser, attachment uploadedby, history author and
\* changes, billing invoiceperiods) is itself the output of its flatten helper.
NestedFieldsAreFlattened ==
    /\ fn \in (OrderedHelpers \ {"flattenStringList"}) \cup {"flattenInvoicePeriods"} =>
          IsFlattenedBy(fn, fout)
    /\ fn = "flattenAttachments" =>
          \A i \in 1..Len(fout.elems) :
              IsFlattenedBy("flattenUsers", fout.elems[i].uploadedby)
    /\ fn = "flattenHistoryItems" =>
          \A i \in 1..Len(fout.elems) :
              /\ IsFlattenedBy("flattenUsers", fout.elems[i].author)
              /\ IsFlattenedBy("flattenChanges", fout.elems[i].changes)
    /\ fn = "flattenBillingItems" =>
          \A i \in 1..Len(fout.elems) :
              IsFlattenedBy("flattenInvoicePeriods", fout.elems[i].invoiceperiods)
    /\ fn = "flattenComments" =>
          \A i \in 1..Len(fout.elems) :
              /\ IsFlattenedBy("flattenUsers", fout.elems[i].author)
              /\ IsFlattenedBy("flattenUsers", fout.elems[i].loginuser)

-----------------------------------------------------------------------------
(* The order of invoice periods.                                            *)

Occurrences(s, x) == Cardinality({i \in 1..Len(s) : s[i] = x})

SameElements(s, t) ==
    /\ Len(s) = Len(t)
    /\ \A i \in 1..Len(s) : Occurrences(s, s[i]) = Occurrences(t, s[i])

\* b1 and b2 hold the same billing items in the same order, the invoice
\* periods of each item being the same elements in some order.
SameUpToPeriodOrder(b1, b2) ==
    /\ Len(b1.elems) = Len(b2.elems)
    /\ \A i \in 1..Len(b1.elems) :
         /\ b1.elems[i].id = b2.elems[i].id
         /\ SameElements(b1.elems[i].invoiceperiods.elems,
                         b2.elems[i].invoiceperiods.elems)

ManyPeriods(t) ==
    \E i \in 1..Len(t.BillingItems.elems) :
        Cardinality(DOMAIN t.BillingItems.elems[i].InvoicePeriods) >= 2

\* C17: wherever a read has assigned a ticket with a billing item of two or
\* more period labels, another run over the same ticket could have assigned a
\* different billingitems value, and whatever two reads of one ticket assign
\* differs only in the order of the invoice periods.
InvoicePeriodOrderUnspecified ==
    /\ \A r \in Reads :
         (Has(r, "assign") /\ ManyPeriods(ticket[r])) =>
             \E it \in BillingIterations(ticket[r].BillingItems) :
                 /\ flattenBillingItems(ticket[r].BillingItems, it) # attrs[r].billingitems
                 /\ SameUpToPeriodOrder(flattenBillingItems(ticket[r].BillingItems, it),
                                        attrs[r].billingitems)
    /\ \A r1, r2 \in Reads :
         (Has(r1, "assign") /\ Has(r2, "assign") /\ ticket[r1] = ticket[r2]) =>
             SameUpToPeriodOrder(attrs[r1].billingitems, attrs[r2].billingitems)

SameTicketDifferentBilling ==
    \E r1, r2 \in Reads :
        /\ Ended(r1) /\ Ended(r2)
        /\ ticket[r1] = FullTicket /\ ticket[r2] = FullTicket
        /\ ret[r1].kind = "nil" /\ ret[r2].kind = "nil"
        /\ attrs[r1].billingitems # attrs[r2].billingitems

-----------------------------------------------------------------------------
(* The log file after the first Close.                                      *)

\* C18: a debug-enabled read that has returned has left the log file closed
\* and the logger singleton in place; a closed file stays closed, the
\* singleton is not created again, and every line written from then on is lost.
ClosedLogTakesNoLine ==
    /\ [](\A r \in Reads :
            (pc[r] \in {"done", "crashed"} /\ deferClose[r]) =>
                file = "closed" /\ logInstance /\ opens = 1)
    /\ [][file = "closed" =>
            /\ file' = "closed"
            /\ logInstance'
            /\ opens' = opens
            /\ once' = once
            /\ (writing' # writing /\ writing' \subseteq writing) => lastWrite' = "lost"
            /\ lastWrite' # lastWrite => lastWrite' = "lost"]_vars

LaterReadWritesToClosedFile ==
    \E r1, r2 \in Reads :
        /\ r1 # r2
        /\ Ended(r1) /\ deferClose[r1]
        /\ file = "closed"
        /\ deferClose[r2] /\ pc[r2] = "r_body_dbg" /\ r2 \notin writing
        /\ lastWrite = "lost"

\* C19: the log file is closed only while no read is inside Debug, Info or
\* Error: a Close never falls between the Lock and the Unlock of another read.
CloseNeverOverlapsAWrite ==
    [][(file = "open" /\ file' = "closed") =>
          \A r \in Reads : r \notin mu /\ r \notin writing]_vars

\* C20: with api_key and base_url given, providerConfigure, once it has
\* returned, has returned a client and no error, whether or not the credential
\* could be constructed; a read handed a client without a credential takes its
\* token step on the absent credential and gets no further.
ClientReturnedWithoutCredential ==
    /\ (cfgIn.api_key # "" /\ cfgIn.base_url # "" /\ pc[0] = "c_done") =>
          client.has /\ cfgErr = ""
    /\ (client.has /\ client.aziclient = "nil") =>
          \A r \in Reads :
              Has(r, "token") =>
                  inp[r].tok = "panic" /\ ~Has(r, "http") /\ ret[r].kind = "panic"

ReadUsesAbsentCredential ==
    /\ pc[0] = "c_done" /\ cfgErr = ""
    /\ client.has /\ client.aziclient = "nil"
    /\ \E r \in Reads : Has(r, "token") /\ inp[r].tok = "panic"

-----------------------------------------------------------------------------
(* Properties of a failed logger initialisation.                            *)

\* once.Do has run and left no instance: the log file could not be opened.
InitialisationFailed == once = "done" /\ ~logInstance

\* C21: once opening the log file has failed in the first NewLogger call, the
\* once-guard stays consumed and the instance nil; no later call opens the
\* file, every later NewLogger call returns "logger not initialized", and
\* Debug, Info, Error and Close change nothing.
FailedInitialisationIsPermanent ==
    /\ [](InitialisationFailed =>
            /\ opens = 0 /\ file = "none"
            /\ mu = {} /\ writing = {} /\ lastWrite = "none"
            /\ \A r \in Reads :
                 /\ pc[r] \notin {"nl_init", "nl_initw", "m_log"}
                 /\ ret[r] \in {NoReturn, LoggerNotInitialized})
    /\ [][InitialisationFailed =>
            /\ InitialisationFailed'
            /\ <<file, opens, mu, writing, lastWrite>>' = <<file, opens, mu, writing, lastWrite>>
            /\ \A r \in Reads :
                 (pc[r] = "nl_ret" /\ pc'[r] # "nl_ret") => ret'[r] = LoggerNotInitialized]_vars

EveryCallAfterFailure ==
    /\ InitialisationFailed
    /\ \E r1, r2 \in Reads :
         /\ r1 # r2
         /\ ret[r1] = LoggerNotInitialized /\ ret[r2] = LoggerNotInitialized
         /\ hist[r1] = <<"Debug">> /\ hist[r2] = <<"Close">>
         /\ pc[r1] = "m_idle" /\ pc[r2] = "m_idle"

=============================================================================
